---- MODULE Spec2Model ----
(***************************************************************************)
(* Model of pcap2har/tls/flow.py: the Flow epoch coordinator.              *)
(*                                                                         *)
(* Objects are identified by their creation index: the i-th               *)
(* ConnStatePeriod created by the Flow is period i, None is 0.  A plex is  *)
(* identified by the period that owns it and its side.                     *)
(***************************************************************************)
EXTENDS Integers, Sequences, FiniteSets, TLC

\* ---- bounds of the model ----
MaxCalls == 6      \* successful next_connstate calls in one run
MaxPkts == 2       \* packets handed to add()
MaxRecs == 2       \* TLS records one direction parses in one update_records

\* ---- values ----
None == 0
NoPlex == [period |-> None, side |-> "none"]
OwnDirs == {"fwd", "rev"}          \* self.fwd, self.rev
ForeignDirs == {"other"}           \* a Direction that is not this Flow's
ParamVals == {"hs"}                \* what handshake parsing stores in pending_params
Records == {"ccs"} \cup ParamVals   \* record kinds a direction can parse

VARIABLES
  pc,                \* "ctor_fwd", "ctor_rev" (inside __init__), "ready"
  tcpflow,           \* [pkts, finished] of the wrapped tcp.Flow
  connstate,         \* Flow.connstate: period id or None
  pending_connstate, \* Flow.pending_connstate: period id or None
  old_states,        \* Flow.old_states: sequence of period ids
  pending_params,    \* Flow.pending_params: [id, vals]
  periods,           \* heap of ConnStatePeriod objects, by creation index
  params_created,    \* number of ConnectionStateParams objects created
  fwd_plex,          \* current plex of self.fwd
  rev_plex,          \* current plex of self.rev
  log,               \* history: one log_entry per next_connstate return
  raised,            \* exception raised by the last operation, or "none"
  events             \* calls made by the last operation, in order

vars == <<pc, tcpflow, connstate, pending_connstate, old_states, pending_params,
          periods, params_created, fwd_plex, rev_plex, log, raised, events>>

epoch == <<connstate, pending_connstate, old_states, pending_params>>

\* The Flow and its two Directions as one value, threaded through the calls
\* of one operation.
State ==
  [connstate |-> connstate, pending_connstate |-> pending_connstate,
   old_states |-> old_states, pending_params |-> pending_params,
   periods |-> periods, params_created |-> params_created,
   fwd_plex |-> fwd_plex, rev_plex |-> rev_plex, log |-> log,
   raised |-> raised, events |-> events]

\* no parameter holder
NoParams == [id |-> None, vals |-> {}]

\* ConnectionStateParams(None): a new, empty holder; n holders existed before.
ConnectionStateParams(n) == [id |-> n + 1, vals |-> {}]

\* ConnStatePeriod(prev): a new period with its two plexes and a
\* back-reference to the period it supersedes.  The constructor is given the
\* predecessor and nothing else, so no parameter holder reaches the period.
ConnStatePeriod(id, prev) ==
  [prev |-> prev,
   params |-> NoParams,
   fwd |-> [period |-> id, side |-> "fwd"],
   rev |-> [period |-> id, side |-> "rev"]]

\* flow.py:95, "return ret": what one successful call returned, to whom,
\* whether it created the period, the holder in pending_params before and
\* after the call, and connstate and old_states when it returned.
log_entry(before, after, asking_dir, plex, created) ==
  [dir |-> asking_dir, plex |-> plex, created |-> created,
   held |-> before.pending_params, fresh |-> after.pending_params,
   current |-> after.connstate, retired |-> after.old_states]

\* right_plex without the test of asking_dir
right_plex_always_fwd(s, asking_dir) ==
  s.periods[s.pending_connstate].fwd

\* right_plex with the two sides exchanged
right_plex_crossed(s, asking_dir) ==
  IF asking_dir = "fwd"
    THEN s.periods[s.pending_connstate].rev
    ELSE s.periods[s.pending_connstate].fwd

\* flow.py:77-80
right_plex(s, asking_dir) ==
  IF asking_dir = "fwd"
    THEN s.periods[s.pending_connstate].fwd
    ELSE s.periods[s.pending_connstate].rev

\* claim_pending without "self.pending_connstate = None"
claim_pending_not_cleared(s, asking_dir) ==
  [s EXCEPT !.log = Append(@, log_entry(s, s, asking_dir, right_plex(s, asking_dir), FALSE))]


\* claim_pending that also starts a new parameter holder
claim_pending_resets_params(s, asking_dir) ==
  LET s1 == [s EXCEPT !.pending_connstate = None,
                      !.pending_params = ConnectionStateParams(s.params_created),
                      !.params_created = @ + 1]
  IN [s1 EXCEPT !.log = Append(@, log_entry(s, s1, asking_dir, right_plex(s, asking_dir), FALSE))]

\* flow.py:83-85, the branch taken while an epoch is pending
claim_pending(s, asking_dir) ==
  [s EXCEPT !.pending_connstate = None,
            !.log = Append(@, log_entry(s, s, asking_dir, right_plex(s, asking_dir), FALSE))]

\* create_pending without "self.old_states.append(self.connstate)"
create_pending_no_retire(s, asking_dir) ==
  LET id == Len(s.periods) + 1
      s1 == [s EXCEPT
               !.periods = Append(@, ConnStatePeriod(id, s.connstate)),
               !.pending_connstate = id,
               !.connstate = id,
               !.pending_params = ConnectionStateParams(s.params_created),
               !.params_created = @ + 1]
  IN [s1 EXCEPT !.log = Append(@, log_entry(s, s1, asking_dir, right_plex(s1, asking_dir), TRUE))]

\* create_pending that retires the new period instead of the superseded one
create_pending_retire_new(s, asking_dir) ==
  LET id == Len(s.periods) + 1
      s1 == [s EXCEPT
               !.periods = Append(@, ConnStatePeriod(id, s.connstate)),
               !.pending_connstate = id,
               !.old_states = IF s.connstate # None THEN Append(@, id) ELSE @,
               !.connstate = id,
               !.pending_params = ConnectionStateParams(s.params_created),
               !.params_created = @ + 1]
  IN [s1 EXCEPT !.log = Append(@, log_entry(s, s1, asking_dir, right_plex(s1, asking_dir), TRUE))]

\* create_pending written as if the forward direction always asks first
create_pending_assumes_fwd(s, asking_dir) ==
  LET id == Len(s.periods) + 1
      s1 == [s EXCEPT
               !.periods = Append(@, ConnStatePeriod(id, s.connstate)),
               !.pending_connstate = id,
               !.old_states = IF s.connstate # None THEN Append(@, s.connstate) ELSE @,
               !.connstate = id,
               !.pending_params = ConnectionStateParams(s.params_created),
               !.params_created = @ + 1]
  IN [s1 EXCEPT !.log = Append(@, log_entry(s, s1, asking_dir, s1.periods[id].fwd, TRUE))]

\* create_pending without "self.connstate = self.pending_connstate"
create_pending_no_current(s, asking_dir) ==
  LET id == Len(s.periods) + 1
      s1 == [s EXCEPT
               !.periods = Append(@, ConnStatePeriod(id, s.connstate)),
               !.pending_connstate = id,
               !.old_states = IF s.connstate # None THEN Append(@, s.connstate) ELSE @,
               !.pending_params = ConnectionStateParams(s.params_created),
               !.params_created = @ + 1]
  IN [s1 EXCEPT !.log = Append(@, log_entry(s, s1, asking_dir, right_plex(s1, asking_dir), TRUE))]


\* create_pending without "self.pending_params = ConnectionStateParams(None)"
create_pending_keeps_params(s, asking_dir) ==
  LET id == Len(s.periods) + 1
      s1 == [s EXCEPT
               !.periods = Append(@, ConnStatePeriod(id, s.connstate)),
               !.pending_connstate = id,
               !.old_states = IF s.connstate # None THEN Append(@, s.connstate) ELSE @,
               !.connstate = id]
  IN [s1 EXCEPT !.log = Append(@, log_entry(s, s1, asking_dir, right_plex(s1, asking_dir), TRUE))]


\* create_pending that builds the period without a predecessor
create_pending_no_prev(s, asking_dir) ==
  LET id == Len(s.periods) + 1
      s1 == [s EXCEPT
               !.periods = Append(@, ConnStatePeriod(id, None)),
               !.pending_connstate = id,
               !.old_states = IF s.connstate # None THEN Append(@, s.connstate) ELSE @,
               !.connstate = id,
               !.pending_params = ConnectionStateParams(s.params_created),
               !.params_created = @ + 1]
  IN [s1 EXCEPT !.log = Append(@, log_entry(s, s1, asking_dir, right_plex(s1, asking_dir), TRUE))]

\* flow.py:86-94, the branch taken when no epoch is pending
create_pending(s, asking_dir) ==
  LET id == Len(s.periods) + 1
      s1 == [s EXCEPT
               !.periods = Append(@, ConnStatePeriod(id, s.connstate)),
               !.pending_connstate = id,
               !.old_states = IF s.connstate # None THEN Append(@, s.connstate) ELSE @,
               !.connstate = id,
               !.pending_params = ConnectionStateParams(s.params_created),
               !.params_created = @ + 1]
  IN [s1 EXCEPT !.log = Append(@, log_entry(s, s1, asking_dir, right_plex(s1, asking_dir), TRUE))]

\* next_connstate without the assertion of line 75
next_connstate_no_assert(s, asking_dir) ==
  LET s0 == [s EXCEPT !.events = Append(@, <<"next_connstate", asking_dir>>)]
  IN IF s0.pending_connstate # None
       THEN claim_pending(s0, asking_dir)
       ELSE create_pending(s0, asking_dir)

\* flow.py:67-95.  The returned plex is the last entry of log.
next_connstate(s, asking_dir) ==
  LET s0 == [s EXCEPT !.events = Append(@, <<"next_connstate", asking_dir>>)]
  IN IF asking_dir \notin OwnDirs
       THEN [s0 EXCEPT !.raised = "AssertionError"]
       ELSE IF s0.pending_connstate # None
              THEN claim_pending(s0, asking_dir)
              ELSE create_pending(s0, asking_dir)

\* Direction.on_change_cipher_spec: fetch the next plex and install it.
on_change_cipher_spec(s, d) ==
  LET r == next_connstate(s, d)
      p == r.log[Len(r.log)].plex
  IN IF r.raised # "none" THEN r
     ELSE IF d = "fwd" THEN [r EXCEPT !.fwd_plex = p]
                       ELSE [r EXCEPT !.rev_plex = p]

\* One parsed record: a ChangeCipherSpec asks for the next epoch, a
\* handshake message stores a negotiated value in flow.pending_params.
parse_record(s, d, rec) ==
  IF rec = "ccs"
    THEN on_change_cipher_spec(s, d)
    ELSE [s EXCEPT !.pending_params.vals = @ \cup {rec}]

RECURSIVE parse_records(_, _, _)
parse_records(s, d, recs) ==
  IF recs = <<>> \/ s.raised # "none" THEN s
  ELSE parse_records(parse_record(s, d, Head(recs)), d, Tail(recs))

\* Direction.update_records: parse the records that became available.
update_records(s, d, recs) ==
  parse_records([s EXCEPT !.events = Append(@, <<"update_records", d>>)], d, recs)


\* update_both that starts a new parameter holder at the end of the pass
update_both_resets_params(s, pkt) ==
  LET s1 == update_records(s, "fwd", pkt.fwd)
      s2 == IF s1.raised # "none" THEN s1 ELSE update_records(s1, "rev", pkt.rev)
  IN [s2 EXCEPT !.pending_params = ConnectionStateParams(s2.params_created),
                !.params_created = @ + 1]


\* update_both with the two update_records calls exchanged
update_both_rev_first(s, pkt) ==
  LET s1 == update_records(s, "rev", pkt.rev)
  IN IF s1.raised # "none" THEN s1 ELSE update_records(s1, "fwd", pkt.fwd)

\* flow.py:64-65 and 103-104: forward direction first, then reverse.
update_both(s, pkt) ==
  LET s1 == update_records(s, "fwd", pkt.fwd)
  IN IF s1.raised # "none" THEN s1 ELSE update_records(s1, "rev", pkt.rev)

RecSeqs == UNION {[1..n -> Records] : n \in 0..MaxRecs}
\* what a packet (or the final flush) makes available to each direction
Packets == [fwd : RecSeqs, rev : RecSeqs]

Install(s) ==
  /\ connstate' = s.connstate
  /\ pending_connstate' = s.pending_connstate
  /\ old_states' = s.old_states
  /\ pending_params' = s.pending_params
  /\ periods' = s.periods
  /\ params_created' = s.params_created
  /\ fwd_plex' = s.fwd_plex
  /\ rev_plex' = s.rev_plex
  /\ log' = s.log
  /\ raised' = s.raised
  /\ events' = s.events

\* flow.py:48-58
Init ==
  /\ pc = "ctor_fwd"
  /\ tcpflow = [pkts |-> 0, finished |-> FALSE]
  /\ pending_params = ConnectionStateParams(0)
  /\ params_created = 1
  /\ connstate = None
  /\ pending_connstate = None
  /\ old_states = <<>>
  /\ periods = <<>>
  /\ fwd_plex = NoPlex
  /\ rev_plex = NoPlex
  /\ log = <<>>
  /\ raised = "none"
  /\ events = <<>>

\* flow.py:59
CtorFwd ==
  /\ pc = "ctor_fwd"
  /\ pc' = "ctor_rev"
  /\ Install(on_change_cipher_spec([State EXCEPT !.events = <<>>], "fwd"))
  /\ UNCHANGED tcpflow

\* flow.py:60
CtorRev ==
  /\ pc = "ctor_rev"
  /\ pc' = "ready"
  /\ Install(on_change_cipher_spec([State EXCEPT !.events = <<>>], "rev"))
  /\ UNCHANGED tcpflow

\* flow.py:62-65
Add ==
  /\ pc = "ready"
  /\ ~tcpflow.finished
  /\ tcpflow.pkts < MaxPkts
  /\ \E pkt \in Packets :
       LET s0 == [State EXCEPT !.raised = "none", !.events = << <<"tcpflow.add">> >>]
           s1 == update_both(s0, pkt)
       IN /\ Len(s1.log) <= MaxCalls
          /\ Install(s1)
  /\ tcpflow' = [tcpflow EXCEPT !.pkts = @ + 1]
  /\ UNCHANGED pc

\* flow.py:101-104
Finish ==
  /\ pc = "ready"
  /\ ~tcpflow.finished
  /\ \E pkt \in Packets :
       LET s0 == [State EXCEPT !.raised = "none", !.events = << <<"tcpflow.finish">> >>]
           s1 == update_both(s0, pkt)
       IN /\ Len(s1.log) <= MaxCalls
          /\ Install(s1)
  /\ tcpflow' = [tcpflow EXCEPT !.finished = TRUE]
  /\ UNCHANGED pc

\* flow.py:97-99
Handshake ==
  /\ pc = "ready"
  /\ events' = << <<"tcpflow.handshake">> >>
  /\ raised' = "none"
  /\ UNCHANGED <<pc, tcpflow, connstate, pending_connstate, old_states,
                 pending_params, periods, params_created, fwd_plex, rev_plex, log>>

\* flow.py:75: next_connstate called with a Direction the Flow does not own
ForeignCall ==
  /\ pc = "ready"
  /\ \E d \in ForeignDirs :
       LET s1 == next_connstate([State EXCEPT !.raised = "none", !.events = <<>>], d)
       IN /\ Len(s1.log) <= MaxCalls
          /\ Install(s1)
  /\ UNCHANGED <<pc, tcpflow>>

Next == CtorFwd \/ CtorRev \/ Add \/ Finish \/ Handshake \/ ForeignCall

Spec == Init /\ [][Next]_vars

(***************************************************************************)
(* Properties                                                              *)
(***************************************************************************)

Odd(n) == n % 2 = 1

\* every transition recorded in log is one call by one direction followed
\* by one call by the other
Alternating ==
  \A i \in DOMAIN log : (Odd(i) /\ i + 1 <= Len(log)) => log[i].dir # log[i + 1].dir

\* the calls in which a plex was returned
Returned(plex) == {i \in DOMAIN log : log[i].plex = plex}

\* the returns made to one direction, in order
CallsOf(d) == SelectSeq(log, LAMBDA e : e.dir = d)

IsPrefix(a, b) == Len(a) <= Len(b) /\ SubSeq(b, 1, Len(a)) = a

\* the direction of the first next_connstate call of an operation's events
FirstAsker(ev) ==
  LET ncs == SelectSeq(ev, LAMBDA e : e[1] = "next_connstate")
  IN IF ncs = <<>> THEN "nobody" ELSE ncs[1][2]

\* C1: when the calls alternate correctly, ceil(n/2) periods exist after n
\* calls, a period's fwd plex goes only to fwd and its rev plex only to rev,
\* each at most once and exactly once when the transition is complete.
C1_ExactlyTwoPerEpoch ==
  Alternating =>
    /\ Len(periods) = (Len(log) + 1) \div 2
    /\ \A i \in DOMAIN log : log[i].plex.side = log[i].dir
    /\ \A p \in DOMAIN periods :
         /\ Cardinality(Returned(periods[p].fwd)) <= 1
         /\ Cardinality(Returned(periods[p].rev)) <= 1
         /\ (p < Len(periods) \/ pending_connstate = None) =>
              /\ Cardinality(Returned(periods[p].fwd)) = 1
              /\ Cardinality(Returned(periods[p].rev)) = 1

C1_Witness ==
  /\ Alternating
  /\ Len(log) = 5
  /\ log[3].dir = "rev"
  /\ pending_connstate # None

\* C2: from a state with no pending epoch, fwd-then-rev and rev-then-fwd end
\* in the same Flow state and hand the new period's fwd plex to fwd and its
\* rev plex to rev.
C2_OrderInsensitive ==
  (pc = "ready" /\ pending_connstate = None) =>
    LET s == [State EXCEPT !.raised = "none", !.events = <<>>]
        a == on_change_cipher_spec(on_change_cipher_spec(s, "fwd"), "rev")
        b == on_change_cipher_spec(on_change_cipher_spec(s, "rev"), "fwd")
        n == Len(periods) + 1
    IN /\ a.connstate = b.connstate
       /\ a.old_states = b.old_states
       /\ a.pending_connstate = None /\ b.pending_connstate = None
       /\ a.periods = b.periods
       /\ a.pending_params = b.pending_params
       /\ a.connstate = n
       /\ a.fwd_plex = a.periods[n].fwd /\ b.fwd_plex = a.periods[n].fwd
       /\ a.rev_plex = a.periods[n].rev /\ b.rev_plex = a.periods[n].rev

C2_Witness ==
  /\ pc = "ready" /\ pending_connstate = None
  /\ Len(log) = 6
  /\ log[3].dir = "rev" /\ log[4].dir = "fwd"
  /\ log[5].dir = "fwd" /\ log[6].dir = "rev"
  /\ fwd_plex = periods[3].fwd /\ rev_plex = periods[3].rev

\* C3: the k-th plex returned to fwd and the k-th plex returned to rev are
\* the two halves of the same period, for every k.
C3_DirectionsAgree ==
  \A k \in 1..Len(log) :
    (k <= Len(CallsOf("fwd")) /\ k <= Len(CallsOf("rev"))) =>
      \E p \in DOMAIN periods :
        /\ CallsOf("fwd")[k].plex = periods[p].fwd
        /\ CallsOf("rev")[k].plex = periods[p].rev

\* C4: old_states is every period but the newest, in creation order, once
\* each; no step removes, replaces or reorders its elements or changes a
\* period that exists.
C4_RetirementComplete ==
  /\ [](old_states = [i \in 1..(Len(periods) - 1) |-> i])
  /\ [][IsPrefix(old_states, old_states') /\ IsPrefix(periods, periods')]_vars

C4_Witness ==
  /\ Len(old_states) = 2
  /\ pending_connstate = None

\* C5: right after construction one period exists, it is connstate, fwd and
\* rev hold its two halves, old_states is empty and nothing is pending.
C5_Bootstrap ==
  (pc = "ready" /\ tcpflow.pkts = 0 /\ ~tcpflow.finished) =>
    /\ Len(periods) = 1
    /\ connstate = 1
    /\ fwd_plex = periods[1].fwd /\ fwd_plex # NoPlex
    /\ rev_plex = periods[1].rev /\ rev_plex # NoPlex
    /\ old_states = <<>>
    /\ pending_connstate = None

C5_Witness ==
  /\ pc = "ready" /\ tcpflow.pkts = 0 /\ ~tcpflow.finished
  /\ events = << <<"next_connstate", "rev">> >>

\* C6: a call with a direction the Flow does not own raises the assertion
\* error, returns nothing and leaves the epoch state as it was.
C6_ForeignDirectionRejected ==
  [][(\E d \in ForeignDirs : events' = << <<"next_connstate", d>> >>) =>
       /\ raised' = "AssertionError"
       /\ log' = log
       /\ UNCHANGED epoch
       /\ UNCHANGED <<periods, fwd_plex, rev_plex>>]_vars

C6_Witness ==
  /\ raised = "AssertionError"
  /\ pending_connstate # None
  /\ Len(old_states) >= 1

\* C7: while an epoch is pending, another call by the direction that made
\* the first call fails with an error and changes nothing.
C7_RepeatCallRejected ==
  [][(/\ pending_connstate # None
      /\ FirstAsker(events') = log[Len(log)].dir) =>
       /\ raised' = "AssertionError"
       /\ log' = log
       /\ UNCHANGED epoch]_vars

\* C8: the pending slot is empty initially, holds one period exactly after
\* an odd number of successful calls, and is empty after an even number.
C8_PendingCycle ==
  /\ pending_connstate \in {None} \cup DOMAIN periods
  /\ (pending_connstate # None) <=> Odd(Len(log))

C8_Witness ==
  /\ pending_connstate = None
  /\ Len(log) = 4
  /\ \E i \in DOMAIN log : Odd(i) /\ log[i].dir = log[i + 1].dir

\* C9: connstate is None only before the first call; afterwards it is the
\* newest period and is not in old_states.
C9_OneCurrent ==
  /\ (connstate = None) <=> (Len(log) = 0)
  /\ Len(log) > 0 =>
       /\ connstate = Len(periods)
       /\ connstate \in DOMAIN periods
       /\ \A i \in DOMAIN old_states : old_states[i] # connstate

C9_Witness ==
  /\ connstate = 3
  /\ Len(old_states) = 2
  /\ pending_connstate # None

\* C10: after m renegotiations made of one call per direction, m + 1
\* periods exist and old_states holds the m earlier ones; when nothing is
\* pending fwd holds connstate.fwd and rev holds connstate.rev.
C10_Renegotiation ==
  (pc = "ready" /\ Alternating /\ pending_connstate = None) =>
    LET m == (Len(log) \div 2) - 1
    IN /\ Len(log) = 2 * (m + 1)
       /\ Len(periods) = m + 1
       /\ Len(old_states) = m
       /\ \A i \in 1..m : old_states[i] = i
       /\ fwd_plex = periods[connstate].fwd
       /\ rev_plex = periods[connstate].rev

C10_Witness ==
  /\ pc = "ready" /\ Alternating /\ pending_connstate = None
  /\ Len(old_states) = 2
  /\ log[3].dir = "rev" /\ log[4].dir = "fwd"

\* C11: the period created by the first call of a transition is built from
\* the holder that pending_params held when the call was made.
C11_ParamsConsumed ==
  \A i \in DOMAIN log :
    log[i].created => periods[log[i].plex.period].params = log[i].held

C13_SecondCallFrame ==
  pending_connstate # None =>
    \A d \in OwnDirs :
      LET r == next_connstate(State, d)
          ret == r.log[Len(r.log)].plex
      IN /\ r.raised = raised
         /\ Len(r.log) = Len(log) + 1
         /\ r.periods = periods
         /\ r.params_created = params_created
         /\ r.connstate = connstate
         /\ r.old_states = old_states
         /\ r.pending_params = pending_params
         /\ r.pending_connstate = None
         /\ ret = (IF d = "fwd" THEN periods[pending_connstate].fwd
                                ELSE periods[pending_connstate].rev)

C13_Witness ==
  /\ pc = "ready"
  /\ pending_connstate = 2
  /\ pending_params.vals # {}
  /\ old_states = <<1>>

\* C14: pending_params gets a new, empty holder at the first call of every
\* transition and at no other step; what the old holder had accumulated is
\* gone from the Flow, and what is written between the two calls of a
\* transition is still there after the second.
C14_ParamsReset ==
  /\ pending_params.id = 1 + Cardinality({i \in DOMAIN log : log[i].created})
  /\ pending_params.id = params_created
  /\ \A i \in DOMAIN log :
       /\ log[i].created <=> Odd(i)
       /\ log[i].created =>
            /\ log[i].fresh.id = log[i].held.id + 1
            /\ log[i].fresh.vals = {}
       /\ ~log[i].created => log[i].fresh = log[i].held

C14_Witness ==
  \E i \in DOMAIN log :
    /\ i + 1 \in DOMAIN log
    /\ log[i].created /\ log[i].held.vals # {}
    /\ ~log[i + 1].created /\ log[i + 1].held.vals # {}
    /\ pending_params = log[i + 1].held

\* the positions of an event in the calls of the last operation
At(e) == {i \in DOMAIN events : events[i] = e}

\* the calls of one add or finish: the tcpflow first, then update_records
\* once on fwd and once on rev in that order, each direction's
\* next_connstate calls inside its own update_records
PassInOrder ==
  (events # <<>> /\ events[1] \in {<<"tcpflow.add">>, <<"tcpflow.finish">>}) =>
    /\ At(<<"tcpflow.add">>) \cup At(<<"tcpflow.finish">>) = {1}
    /\ Cardinality(At(<<"update_records", "fwd">>)) = 1
    /\ Cardinality(At(<<"update_records", "rev">>)) = 1
    /\ \A f \in At(<<"update_records", "fwd">>), r \in At(<<"update_records", "rev">>) :
         /\ 1 < f /\ f < r
         /\ \A k \in At(<<"next_connstate", "fwd">>) : f < k /\ k < r
         /\ \A k \in At(<<"next_connstate", "rev">>) : r < k

\* C15: add hands the packet to the tcpflow, finish flushes the tcpflow,
\* before any direction parses; then update_records runs once on fwd and once
\* on rev, fwd first, so fwd's next_connstate calls precede rev's.
C15_PassOrder ==
  /\ []PassInOrder
  /\ [][/\ tcpflow'.pkts # tcpflow.pkts => events'[1] = <<"tcpflow.add">>
        /\ tcpflow'.finished # tcpflow.finished => events'[1] = <<"tcpflow.finish">>]_vars

C15_Witness ==
  events = << <<"tcpflow.finish">>,
              <<"update_records", "fwd">>, <<"next_connstate", "fwd">>,
              <<"update_records", "rev">>, <<"next_connstate", "rev">> >>

Reverse(q) == [i \in 1..Len(q) |-> q[Len(q) + 1 - i]]

\* the periods met by following predecessor references from p
RECURSIVE Chain(_)
Chain(p) == IF p = None THEN <<>> ELSE <<p>> \o Chain(periods[p].prev)

\* C16: every period is built with the period that was current just before
\* as predecessor (none for the first), so the predecessors of connstate are
\* the elements of old_states in reverse order, ending at a period without
\* predecessor.
C16_ChainMatchesOldStates ==
  /\ \A i \in DOMAIN log :
       log[i].created =>
         periods[log[i].plex.period].prev = (IF i = 1 THEN None ELSE log[i - 1].current)
  /\ connstate # None =>
       /\ Chain(periods[connstate].prev) = Reverse(old_states)
       /\ LET c == Chain(connstate) IN periods[c[Len(c)]].prev = None

C16_Witness ==
  /\ connstate = 3
  /\ old_states = <<1, 2>>
  /\ Chain(connstate) = <<3, 2, 1>>

\* C17: in any call sequence, every plex returned is the asking direction's
\* own side of the period that is connstate when the call returns, never a
\* plex of a period in old_states and never the other direction's.
C17_ReturnsCurrentOwnSide ==
  \A i \in DOMAIN log :
    /\ log[i].current # None
    /\ log[i].plex = (IF log[i].dir = "fwd" THEN periods[log[i].current].fwd
                                             ELSE periods[log[i].current].rev)
    /\ log[i].plex.side = log[i].dir
    /\ \A j \in DOMAIN log[i].retired : log[i].retired[j] # log[i].plex.period

C17_Witness ==
  /\ Len(log) = 5
  /\ log[3].dir = "rev" /\ log[4].dir = "rev"
  /\ log[5].dir = "fwd" /\ log[5].retired = <<1, 2>>

\* C18: a pending period is the same period as connstate and is not in
\* old_states.
C18_PendingIsCurrent ==
  pending_connstate # None =>
    /\ pending_connstate = connstate
    /\ \A i \in DOMAIN old_states : old_states[i] # pending_connstate

C18_Witness ==
  /\ pending_connstate = 3
  /\ connstate = 3
  /\ old_states = <<1, 2>>
  /\ pc = "ready"
====
